---- MODULE Spec2Model ----
(***************************************************************************)
(* Model of the chat client in src/nydasbot/src/Chatbot.js (ChatApp).      *)
(*                                                                         *)
(* Strings are sequences of one-character strings, so that trim,           *)
(* startsWith, substring and concatenation are computed as the code        *)
(* computes them.  The component state is the pair of React state hooks    *)
(* (input, messages) and the WebSocket held in the ref.  setMessages is    *)
(* always called with a functional updater: the updaters queue up in       *)
(* `updates` until React re-renders; the transcript is the committed       *)
(* array with the queued updaters applied in order.  React flushes the     *)
(* updates of its own event handlers (onChange, onKeyPress, onClick)       *)
(* before it returns to the event loop; the re-render after the WebSocket  *)
(* onmessage callback is scheduled by React and is the action Render.      *)
(***************************************************************************)
EXTENDS Integers, Sequences, FiniteSets, TLC

VARIABLES input, messages, updates, connState, sent, mounted, display,
          closeCalls, created, sinceSend, ops, phantom, last

vars == <<input, messages, updates, connState, sent, mounted, display,
          closeCalls, created, sinceSend, ops, phantom, last>>

\* ---------------------------------------------------------------- bounds
MaxTurns == 2

\* --------------------------------------------------------------- strings
WhiteSpace == {" ", "\t", "\n", "\r"}

\* the texts the user is taken to put in the input field: empty, blank,
\* plain, and with whitespace before, after and around the text
Drafts == {<<>>, <<" ">>, <<" ", " ">>, <<"a">>, <<" ", "a">>, <<"a", " ">>,
           <<" ", "a", " ">>}

RECURSIVE TrimStart(_)
TrimStart(s) ==
  IF s = <<>> THEN <<>>
  ELSE IF Head(s) \in WhiteSpace THEN TrimStart(Tail(s)) ELSE s

RECURSIVE TrimEnd(_)
TrimEnd(s) ==
  IF s = <<>> THEN <<>>
  ELSE IF s[Len(s)] \in WhiteSpace THEN TrimEnd(SubSeq(s, 1, Len(s) - 1)) ELSE s

\* String.prototype.trim
Trim(s) == TrimEnd(TrimStart(s))

\* the label the code puts in front of a user message
YouPrefix == <<"Y", "o", "u", ":", " ">>

\* String.prototype.startsWith
StartsWith(s, p) == Len(s) >= Len(p) /\ SubSeq(s, 1, Len(p)) = p

\* String.prototype.substring(k): the string from index k (0-based) on
Substring(s, k) == SubSeq(s, k + 1, Len(s))

\* ------------------------------------------------------------- WebSocket
\* connection states; the WebSocket readyState of each
ConnStates == {"Disconnected", "Connecting", "Open", "Closing", "Closed", "Failed"}

ReadyState(c) ==
  CASE c = "Connecting" -> "CONNECTING"
    [] c = "Open" -> "OPEN"
    [] c = "Closing" -> "CLOSING"
    [] c \in {"Closed", "Failed"} -> "CLOSED"
    [] OTHER -> "NONE"

WsSend_BufferWhileConnecting(rs) ==
  CASE rs \in {"OPEN", "CONNECTING"} -> "sent"
    [] OTHER -> "discard"

\* what websocket.current.send(message) does in each readyState: it throws
\* InvalidStateError while CONNECTING, transmits when OPEN and silently
\* discards the data when CLOSING or CLOSED
WsSend(rs) ==
  CASE rs = "CONNECTING" -> "throw"
    [] rs = "OPEN" -> "sent"
    [] OTHER -> "discard"

WsClose_NoOp(c) == c

\* what websocket.current.close() does to the connection state
WsClose(c) == IF c \in {"Connecting", "Open"} THEN "Closing" ELSE c

CleanupCloseCalls_OnlyWhenOpen(c) == IF c = "Open" THEN 1 ELSE 0

\* the number of close() calls of the effect's cleanup: one when
\* websocket.current is set, which it is from the mount on, whatever the
\* readyState
CleanupCloseCalls(c) == IF c # "Disconnected" THEN 1 ELSE 0

\* ------------------------------------------------------------ JSON, values
\* a JavaScript value: t is its type, n its number (or 1/0 for a boolean),
\* s its characters when it is a string
Val(t, n, s) == [t |-> t, n |-> n, s |-> s]

Undefined == Val("undefined", 0, <<>>)

Str(s) == Val("string", 0, s)

\* the payloads the server side is taken to send
Frames == {"not-json", "null", "5", "[]", "{}",
           "{\"answer\":\"\"}", "{\"answer\":0}", "{\"answer\":null}",
           "{\"answer\":\"hi\"}", "{\"answer\":7}",
           "{\"answer\":\"You: hi\"}"}

Parsed(ok, kind, has, answer) == [ok |-> ok, kind |-> kind, has |-> has, answer |-> answer]

\* JSON.parse on those payloads: ok is FALSE where it throws SyntaxError,
\* kind is the type of the parsed value, has says whether the parsed value
\* is an object with an own property `answer`, answer is that property
JsonParse(f) ==
  CASE f = "not-json" -> Parsed(FALSE, "none", FALSE, Undefined)
    [] f = "null" -> Parsed(TRUE, "null", FALSE, Undefined)
    [] f = "5" -> Parsed(TRUE, "number", FALSE, Undefined)
    [] f = "[]" -> Parsed(TRUE, "array", FALSE, Undefined)
    [] f = "{}" -> Parsed(TRUE, "object", FALSE, Undefined)
    [] f = "{\"answer\":\"\"}" -> Parsed(TRUE, "object", TRUE, Str(<<>>))
    [] f = "{\"answer\":0}" -> Parsed(TRUE, "object", TRUE, Val("number", 0, <<>>))
    [] f = "{\"answer\":null}" -> Parsed(TRUE, "object", TRUE, Val("null", 0, <<>>))
    [] f = "{\"answer\":\"hi\"}" -> Parsed(TRUE, "object", TRUE, Str(<<"h", "i">>))
    [] f = "{\"answer\":7}" -> Parsed(TRUE, "object", TRUE, Val("number", 7, <<>>))
    [] f = "{\"answer\":\"You: hi\"}" -> Parsed(TRUE, "object", TRUE, Str(YouPrefix \o <<"h", "i">>))

\* the truthiness test of `if (v)`
Truthy(v) ==
  CASE v.t = "string" -> v.s # <<>>
    [] v.t = "number" -> v.n # 0
    [] v.t = "boolean" -> v.n = 1
    [] OTHER -> FALSE

Digit(n) == CASE n = 0 -> "0" [] n = 5 -> "5" [] n = 7 -> "7" [] OTHER -> "?"

\* the template literal `${v}`
ToStr(v) ==
  CASE v.t = "string" -> v.s
    [] v.t = "number" -> <<Digit(v.n)>>
    [] v.t = "null" -> <<"n", "u", "l", "l">>
    [] OTHER -> <<"u", "n", "d", "e", "f", "i", "n", "e", "d">>

JsonPrefix == <<"{", "\"", "i", "n", "p", "u", "t", "\"", ":", "\"">>

JsonSuffix == <<"\"", "}">>

JsonStringifyInput_Trimmed(inp) == JsonPrefix \o Trim(inp) \o JsonSuffix

\* JSON.stringify({ input }) (the drafts of the model hold no character
\* that JSON escapes)
JsonStringifyInput(inp) == JsonPrefix \o inp \o JsonSuffix

\* the text a frame {"input": text} carries
FrameText(frame) == SubSeq(frame, Len(JsonPrefix) + 1, Len(frame) - Len(JsonSuffix))

\* ------------------------------------------------------- state updaters
AppendUpdater_StaleCopy(x) == [kind |-> "set", arg |-> Append(messages, x)]

\* an update queued by setMessages: "append" is (prev) => [...prev, x]
AppendUpdater(x) == [kind |-> "append", arg |-> <<x>>]

ApplyUpdate_Prepend(prev, u) == IF u.kind = "append" THEN u.arg \o prev ELSE u.arg

\* React applying one queued update to the previous state
ApplyUpdate(prev, u) == IF u.kind = "append" THEN prev \o u.arg ELSE u.arg

RECURSIVE ApplyAll(_, _)
ApplyAll(prev, us) ==
  IF us = <<>> THEN prev ELSE ApplyAll(ApplyUpdate(prev, Head(us)), Tail(us))

\* the transcript: the messages state with every queued update applied
Transcript == ApplyAll(messages, updates)

\* --------------------------------------------------------------- render
IsUserMessage(msg) == StartsWith(msg, YouPrefix)

UserLabel == <<"<b>You:</b><br />">>

ServerLabel == <<"<b>Nydas:</b><br />">>

\* displayMessage of renderMessageAsMarkdown
DisplayMessage(msg) ==
  IF IsUserMessage(msg) THEN UserLabel \o Substring(msg, 5) ELSE ServerLabel \o msg

\* Markup.  A piece of markup that matters as a whole (a label, an element,
\* a markdown link) is one element of the string.
ScriptElement == "<script>alert(1)</script>"

ImgWithHandler == "<img src=x onerror=alert(1)>"

MarkdownJsLink == "[x](javascript:alert(1))"

AnchorJsHref == "<a href=\"javascript:alert(1)\">x</a>"

\* marked on one piece: a markdown link becomes an anchor with that href,
\* inline HTML and text pass through
MarkedPiece(t) == IF t = MarkdownJsLink THEN AnchorJsHref ELSE t

\* marked(displayMessage): the document starts with inline HTML (<b>), so
\* it is one paragraph
Marked(doc) == <<"<p>">> \o [i \in 1..Len(doc) |-> MarkedPiece(doc[i])] \o <<"</p>\n">>

\* DOMPurify, default configuration: the elements it removes with their
\* content
ForbiddenElement(t) == t = ScriptElement

\* DOMPurify on an element it keeps: an on* attribute is removed from the
\* element, a javascript: href from the anchor
SanitizePiece(t) ==
  CASE t = ImgWithHandler -> "<img src=\"x\">"
    [] t = AnchorJsHref -> "<a>x</a>"
    [] OTHER -> t

\* DOMPurify.sanitize(rawMarkup)
RECURSIVE Sanitize(_)
Sanitize(markup) ==
  IF markup = <<>> THEN <<>>
  ELSE IF ForbiddenElement(Head(markup)) THEN Sanitize(Tail(markup))
       ELSE <<SanitizePiece(Head(markup))>> \o Sanitize(Tail(markup))

renderMessageAsMarkdown_NoSanitize(msg) ==
  LET isUserMessage == IsUserMessage(msg)
      displayMessage == DisplayMessage(msg)
      rawMarkup == Marked(displayMessage)
  IN [className |-> IF isUserMessage THEN "box3 sb13" ELSE "box3 sb14",
      key |-> (IF isUserMessage THEN <<"user-">> ELSE <<"server-">>) \o displayMessage,
      html |-> rawMarkup]

\* the element renderMessageAsMarkdown returns; html is the __html of
\* dangerouslySetInnerHTML
renderMessageAsMarkdown(msg) ==
  LET isUserMessage == IsUserMessage(msg)
      displayMessage == DisplayMessage(msg)
      rawMarkup == Marked(displayMessage)
  IN [className |-> IF isUserMessage THEN "box3 sb13" ELSE "box3 sb14",
      key |-> (IF isUserMessage THEN <<"user-">> ELSE <<"server-">>) \o displayMessage,
      html |-> Sanitize(rawMarkup)]

JsReverse_Identity(s) == s

\* [...messages].reverse()
JsReverse(s) == [i \in 1..Len(s) |-> s[Len(s) + 1 - i]]

\* the list of elements the render pass puts in the message area
DisplayList(msgs) ==
  LET reversed == JsReverse(msgs)
  IN [i \in 1..Len(msgs) |-> renderMessageAsMarkdown(reversed[i])]

RenderPass_ReverseInPlace(msgs) ==
  [messages |-> JsReverse(msgs), display |-> DisplayList(msgs)]

\* a render pass over the messages state msgs: the state it leaves (the
\* code reverses a copy, [...messages], so the state array is untouched) and
\* the list of elements it builds
RenderPass(msgs) == [messages |-> msgs, display |-> DisplayList(msgs)]

\* ------------------------------------------------------------- handlers
HandlerResult(err, frames, upd, clear) ==
  [err |-> err, frames |-> frames, upd |-> upd, clear |-> clear]

NonBlank_Truthy(inp) == inp # <<>>

\* the test `if (input.trim())`
NonBlank(inp) == Trim(inp) # <<>>

onmessageUpdater_Set(answer) == [kind |-> "set", arg |-> <<ToStr(answer)>>]

\* the updater of the onmessage callback
onmessageUpdater(answer) == AppendUpdater(ToStr(answer))

sendMessageResult_SwallowThrow(inp, rs) ==
  IF NonBlank(inp)
  THEN HandlerResult("none",
                     IF WsSend(rs) = "sent" THEN <<JsonStringifyInput(inp)>> ELSE <<>>,
                     <<AppendUpdater(YouPrefix \o inp)>>, TRUE)
  ELSE HandlerResult("none", <<>>, <<>>, FALSE)

sendMessageResult_KeepDraft(inp, rs) ==
  IF NonBlank(inp)
  THEN IF WsSend(rs) = "throw"
       THEN HandlerResult("InvalidStateError", <<>>, <<>>, FALSE)
       ELSE HandlerResult("none",
                          IF WsSend(rs) = "sent" THEN <<JsonStringifyInput(inp)>> ELSE <<>>,
                          <<AppendUpdater(YouPrefix \o inp)>>, FALSE)
  ELSE HandlerResult("none", <<>>, <<>>, FALSE)

\* sendMessage with the draft inp on a socket in readyState rs: the error
\* it throws, the frames it transmits, the updates it queues and whether it
\* clears the draft
sendMessageResult(inp, rs) ==
  IF NonBlank(inp)
  THEN IF WsSend(rs) = "throw"
       THEN HandlerResult("InvalidStateError", <<>>, <<>>, FALSE)
       ELSE HandlerResult("none",
                          IF WsSend(rs) = "sent" THEN <<JsonStringifyInput(inp)>> ELSE <<>>,
                          <<AppendUpdater(YouPrefix \o inp)>>, TRUE)
  ELSE HandlerResult("none", <<>>, <<>>, FALSE)

\* the onmessage callback on the payload f
onmessageResult(f) ==
  LET data == JsonParse(f)
  IN IF ~data.ok
     THEN HandlerResult("SyntaxError", <<>>, <<>>, FALSE)
     ELSE IF data.kind = "null"
          THEN HandlerResult("TypeError", <<>>, <<>>, FALSE)
          ELSE IF Truthy(data.answer)
               THEN HandlerResult("none", <<>>, <<onmessageUpdater(data.answer)>>, FALSE)
               ELSE HandlerResult("none", <<>>, <<>>, FALSE)

MountEnabled_Reconnect(m, c) ==
  (~m /\ c = "Disconnected") \/ (m /\ c \in {"Closed", "Failed"})

\* when the effect body runs: its dependency array is empty, so once, on
\* the mount of the component, and never again (m: mounted, c: the
\* connection state)
MountEnabled(m, c) == ~m /\ c = "Disconnected"

\* ---------------------------------------------------------------- state
Last(op, frame, put, err) == [op |-> op, frame |-> frame, put |-> put, err |-> err]

Init ==
  /\ input = <<>>
  /\ messages = <<>>
  /\ updates = <<>>
  /\ connState = "Disconnected"
  /\ sent = <<>>
  /\ mounted = FALSE
  /\ display = <<>>
  /\ closeCalls = 0
  /\ ops = <<>>
  /\ created = 0
  /\ sinceSend = FALSE
  /\ phantom = FALSE
  /\ last = Last("init", "", 0, "none")

\* the first render and the effect: new WebSocket(...), onmessage assigned
Mount ==
  /\ MountEnabled(mounted, connState)
  /\ mounted' = TRUE
  /\ connState' = "Connecting"
  /\ created' = created + 1
  /\ display' = RenderPass(messages).display
  /\ last' = Last("mount", "", 0, "none")
  /\ UNCHANGED <<input, messages, updates, sent, closeCalls, ops, phantom, sinceSend>>

\* the transport becomes ready
TransportOpen ==
  /\ connState = "Connecting"
  /\ connState' = "Open"
  /\ last' = Last("open", "", 0, "none")
  /\ UNCHANGED <<input, messages, updates, sent, mounted, display, closeCalls, ops, phantom, created, sinceSend>>

\* a transport error
TransportError ==
  /\ connState \in {"Connecting", "Open", "Closing"}
  /\ connState' = "Failed"
  /\ last' = Last("error", "", 0, "none")
  /\ UNCHANGED <<input, messages, updates, sent, mounted, display, closeCalls, ops, phantom, created, sinceSend>>

\* the server starts the closing handshake
RemoteClose ==
  /\ connState = "Open"
  /\ connState' = "Closing"
  /\ last' = Last("remoteClose", "", 0, "none")
  /\ UNCHANGED <<input, messages, updates, sent, mounted, display, closeCalls, ops, phantom, created, sinceSend>>

\* the closing handshake ends
CloseComplete ==
  /\ connState = "Closing"
  /\ connState' = "Closed"
  /\ last' = Last("closed", "", 0, "none")
  /\ UNCHANGED <<input, messages, updates, sent, mounted, display, closeCalls, ops, phantom, created, sinceSend>>

\* onChange={(e) => setInput(e.target.value)}, and React's re-render
OnChange(text) ==
  /\ mounted
  /\ input' = text
  /\ LET pass == RenderPass(Transcript)
     IN messages' = pass.messages /\ display' = pass.display
  /\ updates' = <<>>
  /\ sinceSend' = FALSE
  /\ last' = Last("onChange", "", 0, "none")
  /\ UNCHANGED <<connState, sent, mounted, closeCalls, ops, phantom, created>>

\* sendMessage, from the Enter key or the Send button, and React's re-render
Submit ==
  /\ mounted
  /\ Len(Transcript) < MaxTurns
  /\ LET r == sendMessageResult(input, ReadyState(connState))
         pass == RenderPass(ApplyAll(messages, updates \o r.upd))
     IN /\ sent' = sent \o r.frames
        /\ messages' = pass.messages
        /\ updates' = <<>>
        /\ input' = IF r.clear THEN <<>> ELSE input
        /\ display' = pass.display
        /\ ops' = IF r.frames # <<>> THEN Append(ops, [kind |-> "submit", text |-> input]) ELSE ops
        /\ phantom' = (phantom \/ (r.upd # <<>> /\ r.frames = <<>>))
        /\ sinceSend' = (sinceSend \/ r.frames # <<>>)
        /\ last' = Last("submit", "", Len(r.frames), r.err)
  /\ UNCHANGED <<connState, mounted, closeCalls, created>>

\* websocket.current.onmessage on an inbound frame; the browser delivers
\* message events only while the socket is OPEN
Inbound(f) ==
  /\ connState = "Open"
  /\ Len(Transcript) < MaxTurns
  /\ LET r == onmessageResult(f)
     IN /\ updates' = updates \o r.upd
        /\ ops' = IF r.upd # <<>>
                  THEN Append(ops, [kind |-> "answer", text |-> ToStr(JsonParse(f).answer)])
                  ELSE ops
        /\ last' = Last("frame", f, 0, r.err)
  /\ UNCHANGED <<input, messages, connState, sent, mounted, display, closeCalls, phantom, created, sinceSend>>

\* a frame that reaches the browser while the socket is CLOSING (close()
\* was called, or the server started the handshake, and the frame was in
\* flight): the browser drops it and onmessage is not called
InboundWhileClosing ==
  /\ connState = "Closing"
  /\ last' = Last("dropped", "", 0, "none")
  /\ UNCHANGED <<input, messages, updates, connState, sent, mounted, display,
                 closeCalls, created, sinceSend, ops, phantom>>

\* a render pass scheduled by React: the queued updates are applied and the
\* message area is rebuilt
Render ==
  /\ mounted
  /\ LET pass == RenderPass(Transcript)
     IN messages' = pass.messages /\ display' = pass.display
  /\ updates' = <<>>
  /\ last' = Last("render", "", 0, "none")
  /\ UNCHANGED <<input, connState, sent, mounted, closeCalls, ops, phantom, created, sinceSend>>

\* the cleanup of the effect, on unmount
Unmount ==
  /\ mounted
  /\ mounted' = FALSE
  /\ connState' = IF CleanupCloseCalls(connState) = 1 THEN WsClose(connState) ELSE connState
  /\ closeCalls' = closeCalls + CleanupCloseCalls(connState)
  /\ last' = Last("unmount", "", 0, "none")
  /\ UNCHANGED <<input, messages, updates, sent, display, ops, phantom, created, sinceSend>>

Next ==
  \/ Mount
  \/ TransportOpen
  \/ TransportError
  \/ RemoteClose
  \/ CloseComplete
  \/ \E text \in Drafts : OnChange(text)
  \/ Submit
  \/ \E f \in Frames : Inbound(f)
  \/ InboundWhileClosing
  \/ Render
  \/ Unmount

Spec == Init /\ [][Next]_vars

\* ------------------------------------------------ the render pipeline alone
MaxShown == 2

\* turn texts from either end that carry executable markup, and plain ones
RenderTexts ==
  {<<"h", "i">>, <<ScriptElement>>, <<"h", ImgWithHandler>>, <<MarkdownJsLink, "i">>,
   YouPrefix \o <<"a">>, YouPrefix \o <<ScriptElement>>, YouPrefix \o <<ImgWithHandler>>,
   YouPrefix \o <<MarkdownJsLink>>}

RECURSIVE SeqsUpTo(_, _)
SeqsUpTo(S, n) ==
  IF n = 0 THEN {<<>>}
  ELSE LET shorter == SeqsUpTo(S, n - 1)
       IN shorter \cup {Append(q, x) : q \in {t \in shorter : Len(t) = n - 1}, x \in S}

\* the session after the backend has sent up to MaxShown answers with these
\* texts on an open connection, before React has rendered them
RenderInit ==
  /\ input = <<>>
  /\ messages = <<>>
  /\ \E txts \in SeqsUpTo(RenderTexts, MaxShown) :
       /\ updates = [i \in 1..Len(txts) |-> AppendUpdater(txts[i])]
       /\ ops = [i \in 1..Len(txts) |-> [kind |-> "answer", text |-> txts[i]]]
  /\ connState = "Open"
  /\ sent = <<>>
  /\ mounted = TRUE
  /\ display = <<>>
  /\ closeCalls = 0
  /\ created = 1
  /\ sinceSend = FALSE
  /\ phantom = FALSE
  /\ last = Last("open", "", 0, "none")

RenderNext == Render

RenderSpec == RenderInit /\ [][RenderNext]_vars

TypeOK ==
  /\ input \in Drafts
  /\ connState \in ConnStates
  /\ mounted \in BOOLEAN
  /\ Len(Transcript) <= MaxTurns

\* ------------------------------------------------------ turns, as stored
\* the role the render pass gives a stored message
TurnRole(msg) == IF IsUserMessage(msg) THEN "User" ELSE "Assistant"

\* the text the render pass shows for a stored message
TurnText(msg) == IF IsUserMessage(msg) THEN Substring(msg, 5) ELSE msg

\* --------------------------------------------------------------- claims
IsPrefix(s, t) == Len(s) <= Len(t) /\ SubSeq(t, 1, Len(s)) = s

Blank(s) == \A i \in 1..Len(s) : s[i] \in {" ", "\t", "\n", "\r"}

\* the message a handled operation is to leave in the transcript
StoredForm(op) == IF op.kind = "submit" THEN YouPrefix \o op.text ELSE op.text

SubmitStep == last'.op = "submit"

FrameStep == last'.op = "frame"

SessionUnchanged == Transcript' = Transcript /\ input' = input /\ connState' = connState

\* C1: when every turn comes from a submit that transmitted its frame or
\* from an accepted answer, the transcript has exactly one turn per such
\* operation, in handling order; the display list is the render of the
\* messages in exactly the reverse order (newest first).
C1_TranscriptOrderDisplayReverse ==
  /\ ~phantom =>
       /\ Len(Transcript) = Len(ops)
       /\ \A i \in 1..Len(ops) : Transcript[i] = StoredForm(ops[i])
  /\ Len(display) = Len(messages)
  /\ \A i \in 1..Len(display) :
       display[i] = renderMessageAsMarkdown(messages[Len(messages) + 1 - i])
  /\ (~phantom /\ mounted /\ updates = <<>>) =>
       /\ Len(display) = Len(ops)
       /\ \A i \in 1..Len(display) :
            display[i] = renderMessageAsMarkdown(StoredForm(ops[Len(ops) + 1 - i]))

C1_Witness ==
  /\ ~phantom
  /\ updates = <<>>
  /\ Len(ops) = 2
  /\ ops[1].kind = "submit"
  /\ ops[2].kind = "answer"
  /\ Len(display) = 2
  /\ display[1].key = <<"server-">> \o ServerLabel \o ops[2].text
  /\ display[2].key = <<"user-">> \o UserLabel \o ops[1].text

\* C2: a step puts a frame on the transport only while the connection
\* state is Open.
C2_SendOnlyWhenOpen == [][sent' # sent => (SubmitStep /\ connState = "Open")]_vars

C2_Witness == last.op = "submit" /\ last.put = 1 /\ connState = "Open" /\ Len(sent) >= 1

\* C3: a submit of a non-blank draft either transmits the frame, appends
\* the user turn and clears the draft, or (the connection not being Open)
\* transmits nothing, appends nothing and keeps the draft.
C3_SubmitAllOrNothing ==
  [][(SubmitStep /\ ~Blank(input)) =>
       \/ /\ sent' = Append(sent, JsonStringifyInput(input))
          /\ Transcript' = Append(Transcript, YouPrefix \o input)
          /\ input' = <<>>
       \/ /\ connState # "Open"
          /\ sent' = sent
          /\ Transcript' = Transcript
          /\ input' = input]_vars

\* C4: a submit of a non-blank draft while Connecting emits no frame,
\* leaves the transcript unchanged and does not clear the draft.
C4_SubmitWhileConnecting ==
  [][(SubmitStep /\ ~Blank(input) /\ connState = "Connecting") =>
       (sent' = sent /\ Transcript' = Transcript /\ input' = input)]_vars

C4_Witness ==
  /\ last.op = "submit"
  /\ last.err = "InvalidStateError"
  /\ connState = "Connecting"
  /\ ~Blank(input)

\* C5: an inbound frame that does not parse leaves transcript, draft and
\* connection state unchanged, and no exception leaves the handler.
C5_MalformedFrameContained ==
  [][(FrameStep /\ ~JsonParse(last'.frame).ok) =>
       (SessionUnchanged /\ last'.err = "none")]_vars

\* C6: an inbound frame whose parsed data has an answer field appends
\* exactly one Assistant turn whose text is the value of the field,
\* whatever the value.
C6_AnswerAlwaysAppended ==
  [][(FrameStep /\ JsonParse(last'.frame).has) =>
       /\ Len(Transcript') = Len(Transcript) + 1
       /\ IsPrefix(Transcript, Transcript')
       /\ TurnRole(Transcript'[Len(Transcript')]) = "Assistant"
       /\ TurnText(Transcript'[Len(Transcript')]) = ToStr(JsonParse(last'.frame).answer)]_vars

\* C7: an inbound frame that parses but has no answer field (an object of
\* another shape, null, a number, an array) changes nothing and raises no
\* error.
C7_OtherShapeIgnored ==
  [][(FrameStep /\ JsonParse(last'.frame).ok /\ ~JsonParse(last'.frame).has) =>
       (SessionUnchanged /\ last'.err = "none")]_vars

\* C8: the transcript is append-only: in every step the transcript before
\* the step is a prefix of the transcript after it.
C8_AppendOnly == [][IsPrefix(Transcript, Transcript')]_vars

C8_Witness ==
  /\ ~mounted
  /\ Len(Transcript) >= 2
  /\ \E i, j \in 1..Len(Transcript) : TurnRole(Transcript[i]) # TurnRole(Transcript[j])

\* C9: a submit of an empty or whitespace-only draft sends no frame and
\* leaves transcript and draft unchanged, in every connection state.
C9_BlankSubmitNoOp ==
  [][(SubmitStep /\ Blank(input)) =>
       (sent' = sent /\ Transcript' = Transcript /\ input' = input /\ last'.err = "none")]_vars

C9_Witness ==
  /\ last.op = "submit"
  /\ last.put = 0
  /\ last.err = "none"
  /\ input # <<>>
  /\ Blank(input)
  /\ connState = "Open"

\* C10 (as stated): on a submit that transmits, the text of the frame and
\* the text of the appended user turn are both the trimmed draft.
C10_FrameAndTurnTrimmed ==
  [][(SubmitStep /\ sent' # sent) =>
       /\ FrameText(sent'[Len(sent')]) = Trim(input)
       /\ TurnText(Transcript'[Len(Transcript')]) = Trim(input)
       /\ FrameText(sent'[Len(sent')]) = TurnText(Transcript'[Len(Transcript')])]_vars

\* C10 (amended): on a submit that transmits, the text of the frame and the
\* text of the appended user turn are both the draft exactly as typed,
\* leading and trailing whitespace kept, and they are equal to each other.
C10_FrameAndTurnVerbatim ==
  [][(SubmitStep /\ sent' # sent) =>
       /\ Len(sent') = Len(sent) + 1
       /\ Len(Transcript') = Len(Transcript) + 1
       /\ FrameText(sent'[Len(sent')]) = input
       /\ TurnRole(Transcript'[Len(Transcript')]) = "User"
       /\ TurnText(Transcript'[Len(Transcript')]) = input
       /\ FrameText(sent'[Len(sent')]) = TurnText(Transcript'[Len(Transcript')])]_vars

C10_Witness ==
  /\ last.op = "submit"
  /\ last.put = 1
  /\ FrameText(sent[Len(sent)]) # Trim(FrameText(sent[Len(sent)]))
  /\ TurnText(Transcript[Len(Transcript)]) = FrameText(sent[Len(sent)])

\* C11: a turn keeps the role of the operation that created it: a turn
\* appended from an inbound answer is stored and displayed as an Assistant
\* turn, a turn appended by submit as a User turn, whatever its text.
C11_RoleFollowsOperation ==
  ~phantom =>
    /\ \A i \in 1..Len(ops) :
         i <= Len(Transcript) =>
           TurnRole(Transcript[i]) = (IF ops[i].kind = "submit" THEN "User" ELSE "Assistant")
    /\ (mounted /\ updates = <<>>) =>
         \A i \in 1..Len(display) :
           i <= Len(ops) =>
             display[i].className =
               (IF ops[Len(ops) + 1 - i].kind = "submit" THEN "box3 sb13" ELSE "box3 sb14")

\* C12: the teardown requests close on the connection exactly once,
\* whatever the connection state at that moment (Connecting included), and
\* close is requested at no other time.
C12_TeardownClosesOnce ==
  closeCalls = (IF ~mounted /\ connState # "Disconnected" THEN 1 ELSE 0)

C12_Witness ==
  /\ last.op = "unmount"
  /\ closeCalls = 1
  /\ connState = "Closing"
  /\ sent = <<>>
  /\ Transcript = <<>>

\* C13: once the cleanup has requested close, no inbound event is handled:
\* the onmessage callback does not run, and transcript, committed messages,
\* draft, display and sent frames stay as they are.
C13_NoInboundAfterTeardown ==
  [][(~mounted /\ closeCalls >= 1) =>
       /\ ~FrameStep
       /\ Transcript' = Transcript
       /\ messages' = messages
       /\ updates' = updates
       /\ input' = input
       /\ display' = display
       /\ sent' = sent]_vars

C13_Witness ==
  /\ ~mounted
  /\ closeCalls = 1
  /\ last.op = "dropped"
  /\ Len(Transcript) >= 1

\* C14: at most one connection is created in a session, and once the
\* connection state is Closed or Failed it never becomes Connecting or Open
\* again.
C14_SingleConnectionNoReconnect ==
  [][/\ created' <= 1
     /\ connState \in {"Closed", "Failed"} => connState' \notin {"Connecting", "Open"}]_vars

C14_Witness ==
  /\ mounted
  /\ created = 1
  /\ connState = "Failed"
  /\ last.op = "submit"
  /\ Len(Transcript) >= 1

\* C15: a render pass leaves the transcript (content and order), the
\* committed order of the messages, the draft and the connection state
\* unchanged.
C15_RenderIsPure ==
  [][last'.op = "render" =>
       /\ Transcript' = Transcript
       /\ IsPrefix(messages, messages')
       /\ input' = input
       /\ connState' = connState
       /\ sent' = sent]_vars

C15_Witness ==
  /\ last.op = "render"
  /\ Len(messages) >= 2
  /\ messages[1] # messages[Len(messages)]
  /\ Len(display) = Len(messages)
  /\ display[1] = renderMessageAsMarkdown(messages[Len(messages)])

\* markup that executes when it is put in the page: a script element, an
\* element with an inline event handler, an anchor with a javascript: URL
Executable == {ScriptElement, ImgWithHandler, AnchorJsHref}

HasPiece(str, S) == \E k \in 1..Len(str) : str[k] \in S

\* C16: for every turn text, from the user or from the backend, the markup
\* the render pipeline hands to the page holds no script element, no inline
\* event handler and no javascript: URL.
C16_NoExecutableMarkup ==
  \A i \in 1..Len(display) : ~HasPiece(display[i].html, Executable)

C16_Witness ==
  /\ last.op = "render"
  /\ Len(display) = 2
  /\ HasPiece(messages[1], {ScriptElement})
  /\ HasPiece(messages[2], {MarkdownJsLink, ImgWithHandler})
  /\ IsUserMessage(messages[1]) # IsUserMessage(messages[2])

\* C17: the display list has one entry per turn of the committed
\* transcript, and the entries have pairwise distinct identities (keys),
\* also when two turns have the same role and the same text.
C17_DistinctIdentityPerPosition ==
  /\ Len(display) = Len(messages)
  /\ \A i, j \in 1..Len(display) : i # j => display[i].key # display[j].key

\* C18: when a handler appends a turn while updates of earlier handlers
\* are still queued (no render in between), every queued turn stays in the
\* transcript and the new turn comes after them: the transcript after the
\* step is the transcript before it plus the turn of the handled
\* operation.
C18_NoLostUpdate ==
  [][(updates # <<>> /\ Len(ops') > Len(ops)) =>
       Transcript' = Append(Transcript, StoredForm(ops'[Len(ops')]))]_vars

C18_Witness ==
  /\ last.op = "frame"
  /\ Len(updates) >= 2
  /\ Len(Transcript) = Len(messages) + Len(updates)
  /\ Transcript[Len(Transcript)] # Transcript[Len(Transcript) - 1]

\* C19: after a submit that transmitted its frame, a further submit with no
\* onChange in between transmits no frame and appends no turn.
C19_DraftSentAtMostOnce ==
  [][(sinceSend /\ SubmitStep) => (sent' = sent /\ Transcript' = Transcript)]_vars

C19_Witness ==
  /\ sinceSend
  /\ last.op = "submit"
  /\ last.put = 0
  /\ last.err = "none"
  /\ connState = "Open"
  /\ Len(sent) = 1
  /\ Len(Transcript) = 1
====
